---- MODULE Spec2Model ----
(***************************************************************************)
(* The Pomodoro timer engine of timer_logic.py (class PomodoroTimer),      *)
(* driven by the handlers of main.py (class PomodoroApp).                  *)
(*                                                                         *)
(* Times are whole seconds of the monotonic clock.  An Optional[float]     *)
(* field is the empty sequence (None) or a one-element sequence.           *)
(* The engine's methods are operators from an engine record (self) to the  *)
(* engine record the method leaves; the actions apply them to the fields.  *)
(***************************************************************************)
EXTENDS Integers, Sequences, FiniteSets, TLC

VARIABLES
    study_minutes,        \* self.study_minutes
    break_minutes,        \* self.break_minutes
    total_study_seconds,  \* self.total_study_seconds
    mode,                 \* self.mode
    running,              \* self.running
    paused,               \* self.paused
    duration_seconds,     \* self.duration_seconds
    remaining_seconds,    \* self.remaining_seconds
    end_time,             \* self.end_time
    last_tick_time,       \* self.last_tick_time
    clock,                \* the value time.monotonic() returns
    op,                   \* the public operation called last
    ret,                  \* what the last tick returned
    started_at,           \* clock of the start() that began a STUDY run that
                          \* has only been ticked, without a switch, since
    started_total,        \* total_study_seconds at that instant
    pre,                  \* what the last call found: mode, running, paused,
                          \* total_study_seconds, started_at, and the time
                          \* since last_tick_time at the call
    args,                 \* the arguments of the last set_config
    stage,                \* how many steps of the reference scenario have
                          \* been followed, or minus the number of calls
                          \* made since it was left
    shown,                \* the remaining time handed to the display
    time_str,             \* the text format_remaining made of it
    settings_file,        \* the content of ~/.pomo_timer/settings.json
    loaded                \* what the last load_settings did

fields == <<study_minutes, break_minutes, total_study_seconds, mode, running,
            paused, duration_seconds, remaining_seconds, end_time, last_tick_time>>

vars == <<study_minutes, break_minutes, total_study_seconds, mode, running,
          paused, duration_seconds, remaining_seconds, end_time, last_tick_time,
          clock, op, ret, started_at, started_total, pre, args,
          stage, shown, time_str, settings_file, loaded>>

\* what the engine of Spec never touches: the scenario's stage, the display
\* and the settings file
aside == <<stage, shown, time_str, settings_file, loaded>>

\* the observations Spec keeps of the engine's calls
observed == <<op, ret, started_at, started_total, pre, args>>

-----------------------------------------------------------------------------
(* Bounds of the model *)

\* the clock runs from 0 to MaxClock
MaxClock == 180
\* configured minutes are drawn from 1..MaxMinutes
MaxMinutes == 2

\* the gaps between two successive calls
Deltas == {0, 20, 60, 80}
\* the persisted totals the engine is constructed with
InitTotals == {0, 25}

Minutes == 1..MaxMinutes

-----------------------------------------------------------------------------
(* Values *)

SecondsPerMinute == 60

STUDY == "study"
BREAK == "break"

None == <<>>
Some(x) == <<x>>

\* Python's truth value of an Optional[float]: None and 0.0 are false
Truthy(o) == o # None /\ o[1] # 0

Max(a, b) == IF a >= b THEN a ELSE b

\* the engine object as a record
Self ==
    [study_minutes       |-> study_minutes,
     break_minutes       |-> break_minutes,
     total_study_seconds |-> total_study_seconds,
     mode                |-> mode,
     running             |-> running,
     paused              |-> paused,
     duration_seconds    |-> duration_seconds,
     remaining_seconds   |-> remaining_seconds,
     end_time            |-> end_time,
     last_tick_time      |-> last_tick_time]

-----------------------------------------------------------------------------
(* The methods of PomodoroTimer; now is the value of time.monotonic() *)

__init__(sm, bm, total) ==
    [study_minutes       |-> sm,
     break_minutes       |-> bm,
     total_study_seconds |-> total,
     mode                |-> STUDY,
     running             |-> FALSE,
     paused              |-> FALSE,
     duration_seconds    |-> sm * SecondsPerMinute,
     remaining_seconds   |-> sm * SecondsPerMinute,
     end_time            |-> None,
     last_tick_time      |-> None]

\* start that sets the deadline again whatever the state
start_rebases(self, now) ==
    [self EXCEPT !.running = TRUE,
                 !.paused = FALSE,
                 !.end_time = Some(now + self.remaining_seconds),
                 !.last_tick_time = Some(now)]

start(self, now) ==
    IF ~self.running \/ self.paused
    THEN [self EXCEPT !.running = TRUE,
                      !.paused = FALSE,
                      !.end_time = Some(now + self.remaining_seconds),
                      !.last_tick_time = Some(now)]
    ELSE self

\* _track_study_time with the elapsed time taken the wrong way round
_track_study_time_backwards(self, now) ==
    LET counted == IF self.mode = STUDY /\ self.running /\ ~self.paused
                      /\ self.last_tick_time # None
                   THEN [self EXCEPT !.total_study_seconds =
                             self.total_study_seconds + (self.last_tick_time[1] - now)]
                   ELSE self
    IN [counted EXCEPT !.last_tick_time = Some(now)]

\* _track_study_time that leaves last_tick_time where it was
_track_study_time_stale(self, now) ==
    IF self.mode = STUDY /\ self.running /\ ~self.paused
       /\ self.last_tick_time # None
    THEN [self EXCEPT !.total_study_seconds =
              self.total_study_seconds + (now - self.last_tick_time[1])]
    ELSE [self EXCEPT !.last_tick_time = Some(now)]

\* _track_study_time that does not look at the mode
_track_study_time_any_mode(self, now) ==
    LET counted == IF self.running /\ ~self.paused /\ self.last_tick_time # None
                   THEN [self EXCEPT !.total_study_seconds =
                             self.total_study_seconds + (now - self.last_tick_time[1])]
                   ELSE self
    IN [counted EXCEPT !.last_tick_time = Some(now)]

_track_study_time(self, now) ==
    LET counted == IF self.mode = STUDY /\ self.running /\ ~self.paused
                      /\ self.last_tick_time # None
                   THEN [self EXCEPT !.total_study_seconds =
                             self.total_study_seconds + (now - self.last_tick_time[1])]
                   ELSE self
    IN [counted EXCEPT !.last_tick_time = Some(now)]

\* pause_toggle whose pause branch does not clamp the remaining time at 0
pause_toggle_unclamped(self, now) ==
    IF ~self.running
    THEN start(self, now)
    ELSE IF self.paused
         THEN [self EXCEPT !.paused = FALSE,
                           !.end_time = Some(now + self.remaining_seconds),
                           !.last_tick_time = Some(now)]
         ELSE LET updated == IF Truthy(self.end_time)
                             THEN [self EXCEPT !.remaining_seconds =
                                       self.end_time[1] - now]
                             ELSE self
                  tracked == _track_study_time(updated, now)
              IN [tracked EXCEPT !.paused = TRUE]

\* pause_toggle that resumes with the whole session ahead
pause_toggle_resumes_full(self, now) ==
    IF ~self.running
    THEN start(self, now)
    ELSE IF self.paused
         THEN [self EXCEPT !.paused = FALSE,
                           !.end_time = Some(now + self.duration_seconds),
                           !.last_tick_time = Some(now)]
         ELSE LET updated == IF Truthy(self.end_time)
                             THEN [self EXCEPT !.remaining_seconds =
                                       Max(0, self.end_time[1] - now)]
                             ELSE self
                  tracked == _track_study_time(updated, now)
              IN [tracked EXCEPT !.paused = TRUE]

\* pause_toggle that resumes without setting the deadline again
pause_toggle_keeps_deadline(self, now) ==
    IF ~self.running
    THEN start(self, now)
    ELSE IF self.paused
         THEN [self EXCEPT !.paused = FALSE,
                           !.last_tick_time = Some(now)]
         ELSE LET updated == IF Truthy(self.end_time)
                             THEN [self EXCEPT !.remaining_seconds =
                                       Max(0, self.end_time[1] - now)]
                             ELSE self
                  tracked == _track_study_time(updated, now)
              IN [tracked EXCEPT !.paused = TRUE]

\* pause_toggle whose pause branch leaves the study time to the next tick
pause_toggle_untracked(self, now) ==
    IF ~self.running
    THEN start(self, now)
    ELSE IF self.paused
         THEN [self EXCEPT !.paused = FALSE,
                           !.end_time = Some(now + self.remaining_seconds),
                           !.last_tick_time = Some(now)]
         ELSE LET updated == IF Truthy(self.end_time)
                             THEN [self EXCEPT !.remaining_seconds =
                                       Max(0, self.end_time[1] - now)]
                             ELSE self
              IN [updated EXCEPT !.paused = TRUE]

\* pause_toggle that resumes without setting last_tick_time
pause_toggle_counts_pause(self, now) ==
    IF ~self.running
    THEN start(self, now)
    ELSE IF self.paused
         THEN [self EXCEPT !.paused = FALSE,
                           !.end_time = Some(now + self.remaining_seconds)]
         ELSE LET updated == IF Truthy(self.end_time)
                             THEN [self EXCEPT !.remaining_seconds =
                                       Max(0, self.end_time[1] - now)]
                             ELSE self
                  tracked == _track_study_time(updated, now)
              IN [tracked EXCEPT !.paused = TRUE]

\* pause_toggle that switches the mode when it pauses after the deadline
pause_toggle_switches_at_deadline(self, now) ==
    IF ~self.running
    THEN start(self, now)
    ELSE IF self.paused
         THEN [self EXCEPT !.paused = FALSE,
                           !.end_time = Some(now + self.remaining_seconds),
                           !.last_tick_time = Some(now)]
         ELSE LET updated == IF Truthy(self.end_time)
                             THEN [self EXCEPT !.remaining_seconds =
                                       Max(0, self.end_time[1] - now)]
                             ELSE self
                  tracked == _track_study_time(updated, now)
              IN IF tracked.remaining_seconds <= 0
                 THEN [tracked EXCEPT !.mode = IF @ = STUDY THEN BREAK ELSE STUDY,
                                      !.paused = TRUE]
                 ELSE [tracked EXCEPT !.paused = TRUE]

pause_toggle(self, now) ==
    IF ~self.running
    THEN start(self, now)
    ELSE IF self.paused
         THEN [self EXCEPT !.paused = FALSE,
                           !.end_time = Some(now + self.remaining_seconds),
                           !.last_tick_time = Some(now)]
         ELSE LET updated == IF Truthy(self.end_time)
                             THEN [self EXCEPT !.remaining_seconds =
                                       Max(0, self.end_time[1] - now)]
                             ELSE self
                  tracked == _track_study_time(updated, now)
              IN [tracked EXCEPT !.paused = TRUE]

\* reset that leaves the paused flag as it is
reset_keeps_paused(self) ==
    LET d == IF self.mode = STUDY
             THEN self.study_minutes * SecondsPerMinute
             ELSE self.break_minutes * SecondsPerMinute
    IN [self EXCEPT !.running = FALSE,
                    !.duration_seconds = d,
                    !.remaining_seconds = d,
                    !.end_time = None,
                    !.last_tick_time = None]

\* reset that leaves last_tick_time as it is
reset_keeps_last_tick(self) ==
    LET d == IF self.mode = STUDY
             THEN self.study_minutes * SecondsPerMinute
             ELSE self.break_minutes * SecondsPerMinute
    IN [self EXCEPT !.running = FALSE,
                    !.paused = FALSE,
                    !.duration_seconds = d,
                    !.remaining_seconds = d,
                    !.end_time = None]

\* reset that goes back to a study session
reset_to_study(self) ==
    LET d == self.study_minutes * SecondsPerMinute
    IN [self EXCEPT !.mode = STUDY,
                    !.running = FALSE,
                    !.paused = FALSE,
                    !.duration_seconds = d,
                    !.remaining_seconds = d,
                    !.end_time = None,
                    !.last_tick_time = None]

\* reset that refills the session without deriving its length again
reset_keeps_duration(self) ==
    [self EXCEPT !.running = FALSE,
                 !.paused = FALSE,
                 !.remaining_seconds = self.duration_seconds,
                 !.end_time = None,
                 !.last_tick_time = None]

reset(self) ==
    LET d == IF self.mode = STUDY
             THEN self.study_minutes * SecondsPerMinute
             ELSE self.break_minutes * SecondsPerMinute
    IN [self EXCEPT !.running = FALSE,
                    !.paused = FALSE,
                    !.duration_seconds = d,
                    !.remaining_seconds = d,
                    !.end_time = None,
                    !.last_tick_time = None]

\* set_config that stores the minutes and leaves the session running
set_config_without_reset(self, sm, bm) ==
    [self EXCEPT !.study_minutes = sm, !.break_minutes = bm]

set_config(self, sm, bm) ==
    reset([self EXCEPT !.study_minutes = sm, !.break_minutes = bm])

\* _switch_mode that does not refill remaining_seconds
_switch_mode_keeps_remaining(self) ==
    LET flipped == IF self.mode = STUDY
                   THEN [self EXCEPT !.mode = BREAK,
                                     !.duration_seconds =
                                         self.break_minutes * SecondsPerMinute]
                   ELSE [self EXCEPT !.mode = STUDY,
                                     !.duration_seconds =
                                         self.study_minutes * SecondsPerMinute]
    IN [flipped EXCEPT !.running = FALSE,
                       !.paused = FALSE,
                       !.end_time = None]

_switch_mode(self) ==
    LET flipped == IF self.mode = STUDY
                   THEN [self EXCEPT !.mode = BREAK,
                                     !.duration_seconds =
                                         self.break_minutes * SecondsPerMinute]
                   ELSE [self EXCEPT !.mode = STUDY,
                                     !.duration_seconds =
                                         self.study_minutes * SecondsPerMinute]
    IN [flipped EXCEPT !.remaining_seconds = flipped.duration_seconds,
                       !.running = FALSE,
                       !.paused = FALSE,
                       !.end_time = None]

\* tick that switches the mode and does not start the next session
tick_without_restart(self, now) ==
    IF ~self.running \/ self.paused
    THEN [self |-> self, ret |-> FALSE]
    ELSE LET tracked == _track_study_time(self, now)
             updated == IF Truthy(tracked.end_time)
                        THEN [tracked EXCEPT !.remaining_seconds =
                                  Max(0, tracked.end_time[1] - now)]
                        ELSE tracked
         IN IF updated.remaining_seconds <= 0
            THEN [self |-> _switch_mode(updated), ret |-> TRUE]
            ELSE [self |-> updated, ret |-> FALSE]

\* tick that goes on while the engine is paused
tick_ignores_pause(self, now) ==
    IF ~self.running
    THEN [self |-> self, ret |-> FALSE]
    ELSE LET tracked == _track_study_time(self, now)
             updated == IF Truthy(tracked.end_time)
                        THEN [tracked EXCEPT !.remaining_seconds =
                                  Max(0, tracked.end_time[1] - now)]
                        ELSE tracked
         IN IF updated.remaining_seconds <= 0
            THEN [self |-> start(_switch_mode(updated), now), ret |-> TRUE]
            ELSE [self |-> updated, ret |-> FALSE]

\* tick that tracks the study time only when the session goes on
tick_skips_final_interval(self, now) ==
    IF ~self.running \/ self.paused
    THEN [self |-> self, ret |-> FALSE]
    ELSE LET updated == IF Truthy(self.end_time)
                        THEN [self EXCEPT !.remaining_seconds =
                                  Max(0, self.end_time[1] - now)]
                        ELSE self
         IN IF updated.remaining_seconds <= 0
            THEN [self |-> start(_switch_mode(updated), now), ret |-> TRUE]
            ELSE [self |-> _track_study_time(updated, now), ret |-> FALSE]

\* tick that begins the next session at the deadline that has passed
tick_restarts_at_deadline(self, now) ==
    IF ~self.running \/ self.paused
    THEN [self |-> self, ret |-> FALSE]
    ELSE LET tracked == _track_study_time(self, now)
             updated == IF Truthy(tracked.end_time)
                        THEN [tracked EXCEPT !.remaining_seconds =
                                  Max(0, tracked.end_time[1] - now)]
                        ELSE tracked
         IN IF updated.remaining_seconds <= 0
            THEN [self |-> start(_switch_mode(updated), tracked.end_time[1]),
                  ret |-> TRUE]
            ELSE [self |-> updated, ret |-> FALSE]

\* tick that recomputes the remaining time only once the deadline has passed
tick_keeps_remaining(self, now) ==
    IF ~self.running \/ self.paused
    THEN [self |-> self, ret |-> FALSE]
    ELSE LET tracked == _track_study_time(self, now)
             updated == IF Truthy(tracked.end_time) /\ tracked.end_time[1] <= now
                        THEN [tracked EXCEPT !.remaining_seconds = 0]
                        ELSE tracked
         IN IF updated.remaining_seconds <= 0
            THEN [self |-> start(_switch_mode(updated), now), ret |-> TRUE]
            ELSE [self |-> updated, ret |-> FALSE]

\* tick that counts study time no further than the deadline
tick_caps_credit(self, now) ==
    IF ~self.running \/ self.paused
    THEN [self |-> self, ret |-> FALSE]
    ELSE LET until == IF Truthy(self.end_time) /\ self.end_time[1] < now
                      THEN self.end_time[1]
                      ELSE now
             tracked == [_track_study_time(self, until)
                             EXCEPT !.last_tick_time = Some(now)]
             updated == IF Truthy(tracked.end_time)
                        THEN [tracked EXCEPT !.remaining_seconds =
                                  Max(0, tracked.end_time[1] - now)]
                        ELSE tracked
         IN IF updated.remaining_seconds <= 0
            THEN [self |-> start(_switch_mode(updated), now), ret |-> TRUE]
            ELSE [self |-> updated, ret |-> FALSE]

\* tick returns the engine it leaves and the value it returns.  The start()
\* of line 123 reads time.monotonic() itself; the host reads the clock and
\* calls tick at once (main.py 63-64), so both readings are the same instant.
tick(self, now) ==
    IF ~self.running \/ self.paused
    THEN [self |-> self, ret |-> FALSE]
    ELSE LET tracked == _track_study_time(self, now)
             updated == IF Truthy(tracked.end_time)
                        THEN [tracked EXCEPT !.remaining_seconds =
                                  Max(0, tracked.end_time[1] - now)]
                        ELSE tracked
         IN IF updated.remaining_seconds <= 0
            THEN [self |-> start(_switch_mode(updated), now), ret |-> TRUE]
            ELSE [self |-> updated, ret |-> FALSE]

reset_total_study_time(self) ==
    [self EXCEPT !.total_study_seconds = 0]

-----------------------------------------------------------------------------
(* What the engine hands to the display *)

\* a float quotient n / d as the pair <<n, d>> with d > 0
Quotient(n, d) == IF d > 0 THEN <<n, d>> ELSE <<-n, -d>>

\* the floats 0.0 and 1.0
Zero == <<0, 1>>
One == <<1, 1>>

\* x < y, x <= y and x = y of two quotients
Less(x, y) == x[1] * y[2] < y[1] * x[2]
AtMost(x, y) == x[1] * y[2] <= y[1] * x[2]
Same(x, y) == x[1] * y[2] = y[1] * x[2]

\* Python's max and min of two floats: the first argument unless the
\* second is greater (smaller)
FloatMax(x, y) == IF Less(x, y) THEN y ELSE x
FloatMin(x, y) == IF Less(y, x) THEN y ELSE x

\* get_progress that divides the remaining time by the duration
get_progress_of_remaining(self) ==
    IF self.duration_seconds = 0
    THEN Zero
    ELSE FloatMin(One, FloatMax(Zero,
             Quotient(self.remaining_seconds, self.duration_seconds)))

get_progress(self) ==
    IF self.duration_seconds = 0
    THEN Zero
    ELSE LET elapsed == self.duration_seconds - self.remaining_seconds
         IN FloatMin(One, FloatMax(Zero,
                Quotient(elapsed, self.duration_seconds)))

\* a string is the sequence of its characters
DigitChars == <<"0", "1", "2", "3", "4", "5", "6", "7", "8", "9">>

\* Python's int() of a float: the fraction is cut off, towards zero
int(x) ==
    IF x[1] >= 0 THEN x[1] \div x[2] ELSE -((-x[1]) \div x[2])

\* the decimal digits of n >= 0
RECURSIVE Digits(_)
Digits(n) ==
    IF n < 10
    THEN <<DigitChars[n + 1]>>
    ELSE Digits(n \div 10) \o <<DigitChars[(n % 10) + 1]>>

\* zeros before the digits ds up to the width w
RECURSIVE ZeroPad(_, _)
ZeroPad(ds, w) == IF Len(ds) >= w THEN ds ELSE ZeroPad(<<"0">> \o ds, w)

\* the format specification 02d: the sign counts in the width
Format02d(n) ==
    IF n >= 0
    THEN ZeroPad(Digits(n), 2)
    ELSE <<"-">> \o ZeroPad(Digits(-n), 1)

\* format_remaining that keeps two digits of the minutes
format_remaining_two_digits(self) ==
    LET total_secs == int(self.remaining_seconds)
        minutes == (total_secs \div 60) % 100
        seconds == total_secs % 60
    IN Format02d(minutes) \o <<":">> \o Format02d(seconds)

\* self.remaining_seconds is a float, given as a quotient
format_remaining(self) ==
    LET total_secs == int(self.remaining_seconds)
        minutes == total_secs \div 60
        seconds == total_secs % 60
    IN Format02d(minutes) \o <<":">> \o Format02d(seconds)

-----------------------------------------------------------------------------
(* The state machine *)

\* the fields of the engine become those of the record t
Becomes(t) ==
    /\ study_minutes' = t.study_minutes
    /\ break_minutes' = t.break_minutes
    /\ total_study_seconds' = t.total_study_seconds
    /\ mode' = t.mode
    /\ running' = t.running
    /\ paused' = t.paused
    /\ duration_seconds' = t.duration_seconds
    /\ remaining_seconds' = t.remaining_seconds
    /\ end_time' = t.end_time
    /\ last_tick_time' = t.last_tick_time

\* what is remembered of the state a call made at time now finds
Snapshot(now) ==
    [mode                |-> mode,
     running             |-> running,
     paused              |-> paused,
     total_study_seconds |-> total_study_seconds,
     started_at          |-> started_at,
     elapsed             |-> IF last_tick_time # None
                             THEN now - last_tick_time[1]
                             ELSE 0]

\* a call named o is made d seconds after the last one
Called(o, d) ==
    /\ clock + d <= MaxClock
    /\ clock' = clock + d
    /\ op' = o
    /\ pre' = Snapshot(clock + d)
    /\ UNCHANGED aside

\* a run of ticks begins with the engine t that start() leaves in STUDY
\* mode; any other engine ends the run that started_at follows
Begins(t) ==
    IF t.mode = STUDY /\ t.running /\ ~t.paused
    THEN started_at' = Some(clock') /\ started_total' = t.total_study_seconds
    ELSE started_at' = None /\ started_total' = 0

\* the scenario not begun, nothing displayed, no settings file read
AsideIdle ==
    /\ stage = 0
    /\ shown = Zero
    /\ time_str = <<>>
    /\ settings_file = [kind |-> "missing"]
    /\ loaded = None

Init ==
    /\ \E sm \in Minutes, bm \in Minutes, total \in InitTotals :
           /\ study_minutes = sm
           /\ break_minutes = bm
           /\ total_study_seconds = total
           /\ mode = STUDY
           /\ running = FALSE
           /\ paused = FALSE
           /\ duration_seconds = __init__(sm, bm, total).duration_seconds
           /\ remaining_seconds = __init__(sm, bm, total).remaining_seconds
           /\ end_time = __init__(sm, bm, total).end_time
           /\ last_tick_time = __init__(sm, bm, total).last_tick_time
           /\ pre = [mode |-> STUDY, running |-> FALSE, paused |-> FALSE,
                     total_study_seconds |-> total, started_at |-> None,
                     elapsed |-> 0]
    /\ clock = 0
    /\ op = "init"
    /\ ret = FALSE
    /\ started_at = None
    /\ started_total = 0
    /\ args = <<>>
    /\ AsideIdle

Start ==
    \E d \in Deltas :
        LET t == start(Self, clock + d)
        IN /\ Called("start", d)
           /\ args' = <<>>
           /\ Becomes(t)
           /\ IF ~running \/ paused
              THEN Begins(t)
              ELSE UNCHANGED <<started_at, started_total>>
           /\ UNCHANGED ret

PauseToggle ==
    \E d \in Deltas :
        LET t == pause_toggle(Self, clock + d)
        IN /\ Called("pause_toggle", d)
           /\ args' = <<>>
           /\ Becomes(t)
           /\ IF ~running
              THEN Begins(t)
              ELSE started_at' = None /\ started_total' = 0
           /\ UNCHANGED ret

Reset ==
    \E d \in Deltas :
        LET t == reset(Self)
        IN /\ Called("reset", d)
           /\ args' = <<>>
           /\ Becomes(t)
           /\ started_at' = None /\ started_total' = 0
           /\ UNCHANGED ret

SetConfig ==
    \E d \in Deltas, sm \in Minutes, bm \in Minutes :
        LET t == set_config(Self, sm, bm)
        IN /\ Called("set_config", d)
           /\ args' = <<sm, bm>>
           /\ Becomes(t)
           /\ started_at' = None /\ started_total' = 0
           /\ UNCHANGED ret

Tick ==
    \E d \in Deltas :
        LET r == tick(Self, clock + d)
        IN /\ Called("tick", d)
           /\ args' = <<>>
           /\ Becomes(r.self)
           /\ ret' = r.ret
           /\ IF r.ret
              THEN Begins(r.self)
              ELSE UNCHANGED <<started_at, started_total>>

ResetTotalStudyTime ==
    \E d \in Deltas :
        LET t == reset_total_study_time(Self)
        IN /\ Called("reset_total_study_time", d)
           /\ args' = <<>>
           /\ Becomes(t)
           /\ started_at' = None /\ started_total' = 0
           /\ UNCHANGED ret

Next ==
    \/ Start
    \/ PauseToggle
    \/ Reset
    \/ SetConfig
    \/ Tick
    \/ ResetTotalStudyTime

Spec == Init /\ [][Next]_vars

-----------------------------------------------------------------------------
(* The reference scenario: an engine of 25 and 5 minutes, called at the     *)
(* times of the scenario and at others                                      *)

\* the clock of the scenario runs from 0 to ScenarioMaxClock
ScenarioMaxClock == 1600
\* at most ScenarioMaxStray calls are made after the scenario is left
ScenarioMaxStray == 3
\* the gaps between two successive calls of the scenario
ScenarioDeltas == {0, 10, 90, 1490}

\* the calls of the scenario and the clock at each
Script ==
    <<[op |-> "start",        at |-> 0],
      [op |-> "tick",         at |-> 10],
      [op |-> "pause_toggle", at |-> 10],
      [op |-> "pause_toggle", at |-> 100],
      [op |-> "tick",         at |-> 1590]>>

\* the stage a call of o at time now leads to
NextStage(o, now) ==
    IF stage >= 0 /\ stage < Len(Script)
       /\ Script[stage + 1] = [op |-> o, at |-> now]
    THEN stage + 1
    ELSE IF stage >= 0 THEN -1 ELSE stage - 1

ScenarioCalled(o, d) ==
    /\ clock + d <= ScenarioMaxClock
    /\ stage > -ScenarioMaxStray
    /\ clock' = clock + d
    /\ op' = o
    /\ stage' = NextStage(o, clock + d)
    /\ UNCHANGED <<started_at, started_total, pre, args,
                   shown, time_str, settings_file, loaded>>

ScenarioInit ==
    /\ \E total \in InitTotals :
           /\ study_minutes = 25
           /\ break_minutes = 5
           /\ total_study_seconds = total
           /\ mode = __init__(25, 5, total).mode
           /\ running = __init__(25, 5, total).running
           /\ paused = __init__(25, 5, total).paused
           /\ duration_seconds = __init__(25, 5, total).duration_seconds
           /\ remaining_seconds = __init__(25, 5, total).remaining_seconds
           /\ end_time = __init__(25, 5, total).end_time
           /\ last_tick_time = __init__(25, 5, total).last_tick_time
           /\ pre = [mode |-> STUDY, running |-> FALSE, paused |-> FALSE,
                     total_study_seconds |-> total, started_at |-> None,
                     elapsed |-> 0]
    /\ clock = 0
    /\ op = "init"
    /\ ret = FALSE
    /\ started_at = None
    /\ started_total = 0
    /\ args = <<>>
    /\ AsideIdle

ScenarioStart ==
    \E d \in ScenarioDeltas :
        /\ ScenarioCalled("start", d)
        /\ Becomes(start(Self, clock + d))
        /\ UNCHANGED ret

ScenarioPauseToggle ==
    \E d \in ScenarioDeltas :
        /\ ScenarioCalled("pause_toggle", d)
        /\ Becomes(pause_toggle(Self, clock + d))
        /\ UNCHANGED ret

ScenarioTick ==
    \E d \in ScenarioDeltas :
        LET r == tick(Self, clock + d)
        IN /\ ScenarioCalled("tick", d)
           /\ Becomes(r.self)
           /\ ret' = r.ret

ScenarioNext ==
    \/ ScenarioStart
    \/ ScenarioPauseToggle
    \/ ScenarioTick

ScenarioSpec == ScenarioInit /\ [][ScenarioNext]_vars

-----------------------------------------------------------------------------
(* The display of the remaining time *)

\* the remaining times shown are b + o tenths of a second, o in 0..MaxOffset
MaxOffset == 19

\* around 0:00, 1:00, 2:05, 10:00, 60:00, 100:00 and 180:00
ShownBases == {0, 590, 1250, 5990, 35990, 59990, 107990}

RemainingShown ==
    {Quotient(b + o, 10) : b \in ShownBases, o \in 0..MaxOffset}

\* _update_ui hands format_remaining() of the engine to the window
UpdateTimerDisplay ==
    \E x \in RemainingShown :
        /\ shown' = x
        /\ time_str' = format_remaining([remaining_seconds |-> x])
        /\ UNCHANGED <<fields, clock, observed, stage, settings_file, loaded>>

DisplaySpec == Init /\ [][UpdateTimerDisplay]_vars

-----------------------------------------------------------------------------
(* storage.py: the settings file and load_settings *)

\* JSON values as Python holds them
Num(n) == [type |-> "number", value |-> n]
Null == [type |-> "null"]
\* a str, with the keys that occur in it as substrings
Str(text, keys) == [type |-> "string", value |-> text, holds |-> keys]
\* a list, with the strings among its items
Arr(items) == [type |-> "array", items |-> items]
\* a dict
Obj(members) == [type |-> "object", members |-> members]

TopKeys == <<"study_minutes", "break_minutes", "total_study_seconds", "theme">>
ThemeKeys == <<"background_color", "card_color", "accent_color",
               "progress_color", "text_color">>

Range(seq) == {seq[i] : i \in 1..Len(seq)}

DefaultTheme ==
    Obj([k \in Range(ThemeKeys) |->
            CASE k = "background_color" -> Str("#FFE5EC", {})
              [] k = "card_color"       -> Str("#FFD6E0", {})
              [] k = "accent_color"     -> Str("#FF9BB5", {})
              [] k = "progress_color"   -> Str("#FF9BB5", {})
              [] k = "text_color"       -> Str("#FFFFFF", {})])

defaults ==
    Obj([k \in Range(TopKeys) |->
            CASE k = "study_minutes"       -> Num(30)
              [] k = "break_minutes"       -> Num(5)
              [] k = "total_study_seconds" -> Num(0)
              [] k = "theme"               -> DefaultTheme])

\* what a call does: it returns a value or raises an exception
Returns(v) == [raised |-> "", value |-> v]
Raises(x) == [raised |-> x, value |-> Null]

\* key in data, key not in data: a dict's keys, a list's items, a str's
\* substrings; any other value raises TypeError
CanContain(data) == data.type \in {"object", "array", "string"}
Contains(data, key) ==
    CASE data.type = "object" -> key \in DOMAIN data.members
      [] data.type = "array"  -> key \in data.items
      [] data.type = "string" -> key \in data.holds

\* data[key] = value of a dict; any other value raises TypeError
Assigned(data, key, value) ==
    Obj([k \in (DOMAIN data.members) \cup {key} |->
            IF k = key THEN value ELSE data.members[k]])

\* for key, value in given.items(): if key not in data: data[key] = value
RECURSIVE FillIn(_, _, _, _)
FillIn(data, given, keys, i) ==
    IF i > Len(keys)
    THEN Returns(data)
    ELSE IF ~CanContain(data)
         THEN Raises("TypeError")
         ELSE IF Contains(data, keys[i])
              THEN FillIn(data, given, keys, i + 1)
              ELSE IF data.type # "object"
                   THEN Raises("TypeError")
                   ELSE FillIn(Assigned(data, keys[i], given.members[keys[i]]),
                               given, keys, i + 1)

\* the body of the with statement, lines 38 to 48
Merged(data) ==
    LET top == FillIn(data, defaults, TopKeys, 1)
    IN IF top.raised # ""
       THEN top
       ELSE IF ~Contains(top.value, "theme")
            THEN top
            ELSE IF top.value.type # "object"
                 THEN Raises("TypeError")
                 ELSE LET theme == FillIn(top.value.members["theme"],
                                          DefaultTheme, ThemeKeys, 1)
                      IN IF theme.raised # ""
                         THEN theme
                         ELSE Returns(Assigned(top.value, "theme", theme.value))

\* load_settings on a file that is missing, cannot be opened, holds bytes
\* that are no text, holds text that is no JSON, or holds a JSON document
load_settings(file) ==
    IF file.kind = "missing"
    THEN Returns(defaults)
    ELSE LET body == CASE file.kind = "unreadable"   -> Raises("IOError")
                       [] file.kind = "bad_encoding" -> Raises("UnicodeDecodeError")
                       [] file.kind = "invalid"      -> Raises("JSONDecodeError")
                       [] file.kind = "json"         -> Merged(file.doc)
         IN IF body.raised \in {"JSONDecodeError", "IOError"}
            THEN Returns(defaults)
            ELSE body

\* the values a file gives a top-level key other than theme
Stored(k) ==
    CASE k = "study_minutes"       -> Num(45)
      [] k = "break_minutes"       -> Num(10)
      [] k = "total_study_seconds" -> Num(3600)

\* the themes of the files: dicts of some of the colours, and other values
Themes ==
    {Obj([k \in ks |-> Str("#000000", {})]) : ks \in SUBSET Range(ThemeKeys)}
    \cup {Num(1), Null, Str("dark", {}), Arr({}), Arr(Range(ThemeKeys))}

\* the documents of the files: dicts of some of the keys, and other values
Documents ==
    {Obj([k \in ks |-> Stored(k)]) :
        ks \in SUBSET {"study_minutes", "break_minutes", "total_study_seconds"}}
    \cup {Obj([k \in ks \cup {"theme"} |-> IF k = "theme" THEN t ELSE Stored(k)]) :
            ks \in SUBSET {"study_minutes", "break_minutes"}, t \in Themes}
    \cup {Num(1), Null, Str("settings", {}), Arr({}), Arr(Range(TopKeys))}

Files ==
    {[kind |-> k] : k \in {"missing", "unreadable", "bad_encoding", "invalid"}}
    \cup {[kind |-> "json", doc |-> d] : d \in Documents}

\* some file is in place when the application starts
StorageInit ==
    /\ Init
    /\ loaded = None

WriteFile ==
    /\ loaded = None
    /\ settings_file = [kind |-> "missing"]
    /\ settings_file' \in Files \ {[kind |-> "missing"]}
    /\ UNCHANGED <<fields, clock, observed, stage, shown, time_str, loaded>>

LoadSettings ==
    /\ loaded' = Some(load_settings(settings_file))
    /\ UNCHANGED <<fields, clock, observed, stage, shown, time_str, settings_file>>

StorageNext ==
    \/ WriteFile
    \/ LoadSettings

StorageSpec == StorageInit /\ [][StorageNext]_vars

-----------------------------------------------------------------------------
(* The engine left to the refresh timer: start(), then nothing but ticks *)

\* the gaps between two readings of the clock, all of them positive
LiveDeltas == {20, 60, 80}

\* The engine reads the clock only to take differences (end_time - now,
\* now - last_tick_time) and only adds to total_study_seconds, so a state
\* is kept as seen from the latest switch: the clock, end_time and
\* last_tick_time count from the tick that switched, the total from zero.
SinceSwitch(self, now) ==
    [self EXCEPT !.end_time = IF @ = None THEN None ELSE Some(@[1] - now),
                 !.last_tick_time = IF @ = None THEN None ELSE Some(@[1] - now),
                 !.total_study_seconds = 0]

LiveStart ==
    /\ ~running
    /\ op = "init"
    /\ Becomes(start(Self, clock))
    /\ op' = "start"
    /\ pre' = Snapshot(clock)
    /\ UNCHANGED <<clock, ret, started_at, started_total, args, aside>>

\* the refresh timer fires while the engine counts down
LiveTick ==
    /\ running
    /\ ~paused
    /\ \E d \in LiveDeltas :
           LET now == clock + d
               t == tick(Self, now)
           IN /\ IF t.ret
                 THEN Becomes(SinceSwitch(t.self, now)) /\ clock' = 0
                 ELSE Becomes(t.self) /\ clock' = now
              /\ ret' = t.ret
              /\ pre' = Snapshot(now)
    /\ op' = "tick"
    /\ UNCHANGED <<started_at, started_total, args, aside>>

LiveNext ==
    \/ LiveStart
    \/ LiveTick

\* the refresh timer never stops firing
LiveSpec == Init /\ [][LiveNext]_vars /\ WF_vars(LiveTick)

-----------------------------------------------------------------------------
(* The claims *)

\* the operations the timing claims range over
EngineOps == {"start", "pause_toggle", "reset", "set_config", "tick"}

\* the length the configuration gives a session of mode m
Configured(m) ==
    IF m = STUDY
    THEN study_minutes * SecondsPerMinute
    ELSE break_minutes * SecondsPerMinute

\* C1: between calls the remaining time is never negative and never more
\* than the length of the current session.
C1_RemainingInRange ==
    0 <= remaining_seconds /\ remaining_seconds <= duration_seconds

\* C1: the engine was paused after its deadline had passed, where only the
\* clamp keeps the remaining time at 0.
C1_PausedPastDeadline ==
    /\ op = "pause_toggle"
    /\ paused
    /\ end_time # None
    /\ end_time[1] < clock
    /\ remaining_seconds = 0

\* C2: a call of start, pause_toggle, reset, set_config or tick never lowers
\* total_study_seconds, and changes it only when it finds the engine in
\* STUDY mode, running and not paused.
C2_TotalOnlyGrowsWhileStudying ==
    op \in EngineOps =>
        /\ total_study_seconds >= pre.total_study_seconds
        /\ total_study_seconds # pre.total_study_seconds =>
               pre.mode = STUDY /\ pre.running /\ ~pre.paused

\* C2: a pause found the engine studying and added the time since the
\* last tick to the total.
C2_PauseAddedStudyTime ==
    /\ op = "pause_toggle"
    /\ pre.mode = STUDY /\ pre.running /\ ~pre.paused
    /\ total_study_seconds > pre.total_study_seconds

\* C3: after a tick of a run that start() began in STUDY mode at time s and
\* that has only been ticked since, without a switch, total_study_seconds
\* has grown by exactly the time from s to the tick.
C3_TotalGrowsByElapsed ==
    (op = "tick" /\ started_at # None) =>
        total_study_seconds = started_total + (clock - started_at[1])

\* C3: the second or a later tick of such a run, each tick having added
\* study time.
C3_SeveralTicksInOneRun ==
    /\ op = "tick"
    /\ started_at # None
    /\ pre.started_at = started_at
    /\ pre.total_study_seconds > started_total
    /\ total_study_seconds > pre.total_study_seconds

\* C4: a call of start, pause_toggle, reset, set_config or tick that finds
\* the engine in BREAK mode leaves total_study_seconds as it is, the tick
\* that completes the break included.
C4_BreakAddsNothing ==
    (op \in EngineOps /\ pre.mode = BREAK) =>
        total_study_seconds = pre.total_study_seconds

\* C4: a tick completed a break that was running, some time after the
\* tick before it, and switched back to STUDY.
C4_BreakCompleted ==
    /\ op = "tick"
    /\ ret
    /\ pre.mode = BREAK
    /\ pre.elapsed > 0
    /\ mode = STUDY

\* C5: end_time is set exactly when the engine is running and not paused.
C5_EndTimeIffCounting ==
    (end_time # None) <=> (running /\ ~paused)

\* C6: the engine is never paused while stopped.
C6_PausedImpliesRunning ==
    paused => running

\* C6: a reset of a paused engine, which has to clear both flags.
C6_ResetOfPaused ==
    /\ op = "reset"
    /\ pre.running /\ pre.paused
    /\ ~running

\* C7: a tick of a running, unpaused engine at or after end_time returns
\* True, flips the mode and leaves the engine running, unpaused and with
\* end_time set; no call leaves the mode changed and the engine stopped;
\* a tick that returns False leaves the mode as it is.
C7_SwitchIsAtomic ==
    [][/\ (op' = "tick" /\ running /\ ~paused /\ end_time # None
              /\ clock' >= end_time[1])
          => (/\ ret'
              /\ mode' # mode
              /\ running' /\ ~paused'
              /\ end_time' = Some(clock' + remaining_seconds'))
       /\ mode' # mode => (running' /\ ~paused' /\ end_time' # None)
       /\ (op' = "tick" /\ ~ret') => mode' = mode]_vars

\* C7: a tick after the deadline has switched the mode and the next session
\* is running.
C7_SwitchedAndRunning ==
    /\ op = "tick"
    /\ ret
    /\ pre.running /\ ~pre.paused
    /\ pre.mode # mode
    /\ running
    /\ last_tick_time = Some(clock)

\* the tick C8 is about: study_minutes = break_minutes = 1, the engine was
\* started at clock 0 and has only been ticked since, and the tick comes at
\* 60 or later
C8_Case ==
    /\ op = "tick"
    /\ study_minutes = 1 /\ break_minutes = 1
    /\ pre.started_at = Some(0)
    /\ clock >= SecondsPerMinute

\* C8 as stated: that tick reports a switch to BREAK and leaves the engine
\* running with 60 - (now - 60) seconds remaining.
C8_OvershootDeducted ==
    C8_Case =>
        /\ ret
        /\ mode = BREAK
        /\ running /\ ~paused
        /\ remaining_seconds = SecondsPerMinute - (clock - SecondsPerMinute)

\* C8 as amended: that tick reports a switch to BREAK and leaves the engine
\* running with the full 60 seconds of the break remaining and the deadline
\* 60 seconds after the tick, however late the tick is.
C8_FullSessionAfterSwitch ==
    C8_Case =>
        /\ ret
        /\ mode = BREAK
        /\ running /\ ~paused
        /\ remaining_seconds = SecondsPerMinute
        /\ end_time = Some(clock + SecondsPerMinute)

\* C8: the tick came after the deadline of 60.
C8_LateTick ==
    C8_Case /\ clock > SecondsPerMinute /\ ret

\* C9: reset leaves the engine stopped and not paused, with the session
\* length the configuration gives the current mode, all of it remaining,
\* and end_time and last_tick_time unset.
C9_ResetRestoresSession ==
    op = "reset" =>
        /\ ~running
        /\ ~paused
        /\ duration_seconds = Configured(mode)
        /\ remaining_seconds = duration_seconds
        /\ end_time = None
        /\ last_tick_time = None

\* C9: a reset of a break that was paused part way.
C9_ResetOfPausedBreak ==
    /\ op = "reset"
    /\ pre.mode = BREAK
    /\ pre.running /\ pre.paused

\* C10: reset leaves mode, study_minutes, break_minutes and
\* total_study_seconds as they are.
C10_ResetFrame ==
    [][op' = "reset" =>
           /\ mode' = mode
           /\ study_minutes' = study_minutes
           /\ break_minutes' = break_minutes
           /\ total_study_seconds' = total_study_seconds]_vars

\* C10: a reset of an engine that was studying, some time after its last
\* tick; that time has not been added to the total.
C10_ResetWhileStudying ==
    /\ op = "reset"
    /\ pre.mode = STUDY /\ pre.running /\ ~pre.paused
    /\ pre.elapsed > 0
    /\ total_study_seconds = pre.total_study_seconds

\* C11: set_config(s, b) stores s and b and leaves the engine stopped and
\* not paused with the whole session of the current mode, under the new
\* minutes, remaining; the mode and total_study_seconds are as it found them.
C11_SetConfigDiscardsSession ==
    op = "set_config" =>
        /\ study_minutes = args[1]
        /\ break_minutes = args[2]
        /\ ~running
        /\ ~paused
        /\ duration_seconds =
               (IF mode = STUDY THEN args[1] ELSE args[2]) * SecondsPerMinute
        /\ remaining_seconds = duration_seconds
        /\ mode = pre.mode
        /\ total_study_seconds = pre.total_study_seconds

\* C11: set_config found a break running, some time after its last tick,
\* and made the break longer.
C11_ConfiguredDuringBreak ==
    /\ op = "set_config"
    /\ pre.mode = BREAK /\ pre.running /\ ~pre.paused
    /\ pre.elapsed > 0
    /\ args = <<1, 2>>

\* C12: start() on an engine that is running and not paused changes no
\* field, however far the clock has advanced.
C12_StartIdempotent ==
    [][(op' = "start" /\ running /\ ~paused) => UNCHANGED fields]_vars

\* C12: start() was called on a running engine some time after its last
\* tick.
C12_StartedWhileRunning ==
    /\ op = "start"
    /\ pre.running /\ ~pre.paused
    /\ pre.elapsed > 0
    /\ last_tick_time # Some(clock)

\* C13: after a tick at time t has left the engine running, pause_toggle()
\* at t followed by pause_toggle() at t leaves remaining_seconds and
\* total_study_seconds as they were, and a tick at t after them leaves the
\* same remaining time and reports no switch.
C13_PauseResumeSameInstant ==
    (op = "tick" /\ running /\ ~paused) =>
        LET p == pause_toggle(Self, clock)
            r == pause_toggle(p, clock)
            t == tick(r, clock)
        IN /\ p.paused
           /\ r.running /\ ~r.paused
           /\ r.remaining_seconds = remaining_seconds
           /\ r.total_study_seconds = total_study_seconds
           /\ ~t.ret
           /\ t.self.remaining_seconds = remaining_seconds
           /\ t.self.total_study_seconds = total_study_seconds

\* C13: a session part way through was resumed at the instant it was
\* paused.
C13_ResumedAtPauseInstant ==
    /\ op = "pause_toggle"
    /\ pre.running /\ pre.paused
    /\ pre.elapsed = 0
    /\ running /\ ~paused
    /\ 0 < remaining_seconds /\ remaining_seconds < duration_seconds

\* C14: tick(now) on an engine that is stopped or paused returns False and
\* leaves every field as it is, for every now, earlier than the clock or
\* later.
C14_TickIdleIsNoOp ==
    (~running \/ paused) =>
        \A now \in 0..MaxClock : tick(Self, now) = [self |-> Self, ret |-> FALSE]

\* C14: a tick came while the engine was paused, some time after the pause.
C14_TickedWhilePaused ==
    /\ op = "tick"
    /\ pre.running /\ pre.paused
    /\ pre.elapsed > 0
    /\ ~ret

\* C15: for a running, unpaused engine and times a <= b with a before
\* end_time, tick(a) then tick(b) leaves the engine and returns the value
\* that tick(b) alone does.
C15_CadenceIndependent ==
    (running /\ ~paused) =>
        \A d1 \in Deltas, d2 \in Deltas :
            LET a == clock + d1
                b == a + d2
            IN a < end_time[1] => tick(tick(Self, a).self, b) = tick(Self, b)

\* C15: a tick switched the mode of a run that had been ticked part way
\* before.
C15_SwitchAfterIntermediateTick ==
    /\ op = "tick"
    /\ ret
    /\ pre.started_at # None
    /\ pre.elapsed > 0
    /\ pre.started_at[1] + pre.elapsed < clock

\* C16: the scenario of 25 and 5 minutes: after start() at 0 and tick(10)
\* no switch is reported and 1490 seconds remain; pause_toggle() at 10
\* pauses with 1490 remaining; pause_toggle() at 100 resumes with
\* end_time = 1590; tick(1590) reports a switch to BREAK with 300 seconds
\* remaining.
C16_Scenario ==
    /\ stage = 2 => (~ret /\ remaining_seconds = 1490)
    /\ stage = 3 => (paused /\ remaining_seconds = 1490)
    /\ stage = 4 => (running /\ ~paused /\ end_time = Some(1590))
    /\ stage = 5 => (ret /\ mode = BREAK /\ remaining_seconds = 300)

\* C16: all five calls of the scenario have been made.
C16_ScenarioDone ==
    stage = 5 /\ clock = 1590 /\ op = "tick"

\* the progress the display is given
Progress == get_progress(Self)

\* C17: get_progress() is 0.0 when the whole session remains, 1.0 when
\* nothing remains and between 0.0 and 1.0 in every state; no call that
\* keeps the session (any but reset, set_config and a switching tick)
\* lowers it.
C17_ProgressBoundedAndMonotone ==
    /\ [](/\ AtMost(Zero, Progress) /\ AtMost(Progress, One)
          /\ remaining_seconds = duration_seconds => Same(Progress, Zero)
          /\ remaining_seconds = 0 => Same(Progress, One))
    /\ [][(/\ op' \notin {"reset", "set_config"}
           /\ ~(op' = "tick" /\ ret'))
          => AtMost(Progress, Progress')]_vars

\* C17: a tick part way through a session has raised the progress to a
\* value strictly between 0.0 and 1.0.
C17_ProgressPartWay ==
    /\ op = "tick"
    /\ ~ret
    /\ pre.running /\ ~pre.paused
    /\ pre.elapsed > 0
    /\ Less(Zero, Progress) /\ Less(Progress, One)

\* the place of the colon in time_str, the text before it, the text after it
ColonAt == CHOOSE i \in 1..Len(time_str) : time_str[i] = ":"
MinutesField == SubSeq(time_str, 1, ColonAt - 1)
SecondsField == SubSeq(time_str, ColonAt + 1, Len(time_str))

\* the number a string of decimal digits reads as
RECURSIVE Reads(_)
Reads(ds) ==
    IF ds = <<>>
    THEN 0
    ELSE 10 * Reads(SubSeq(ds, 1, Len(ds) - 1))
         + (CHOOSE k \in 0..9 : DigitChars[k + 1] = ds[Len(ds)])

IsDigits(ds) ==
    \A i \in 1..Len(ds) : \E k \in 1..10 : DigitChars[k] = ds[i]

\* C18: format_remaining() gives digits, a colon and two digits below 60;
\* read back, minutes * 60 + seconds is the remaining time with its
\* fraction cut off; the minutes have two digits, and more only when they
\* need them; 125.9 gives "02:05".
C18_FormatRemaining ==
    time_str # <<>> =>
        /\ Cardinality({i \in 1..Len(time_str) : time_str[i] = ":"}) = 1
        /\ IsDigits(MinutesField) /\ IsDigits(SecondsField)
        /\ Len(SecondsField) = 2
        /\ Reads(SecondsField) <= 59
        /\ Len(MinutesField) >= 2
        /\ Len(MinutesField) > 2 => MinutesField[1] # "0"
        /\ Reads(MinutesField) * 60 + Reads(SecondsField) = shown[1] \div shown[2]
        /\ shown = <<1259, 10>> => time_str = <<"0", "2", ":", "0", "5">>

\* C18: a remaining time of 100 minutes or more is displayed.
C18_HundredMinutesShown ==
    /\ shown = <<60009, 10>>
    /\ time_str = <<"1", "0", "0", ":", "0", "0">>

\* a dict whose theme, if it has one, is a dict
WellShaped(file) ==
    /\ file.kind = "json"
    /\ file.doc.type = "object"
    /\ "theme" \in DOMAIN file.doc.members =>
           file.doc.members["theme"].type = "object"

\* the stored values, with every missing top-level key and every missing
\* key of the theme taken from the defaults
Completed(doc) ==
    Obj([k \in Range(TopKeys) |->
            IF k \notin DOMAIN doc.members
            THEN defaults.members[k]
            ELSE IF k # "theme"
                 THEN doc.members[k]
                 ELSE Obj([c \in Range(ThemeKeys) |->
                              IF c \in DOMAIN doc.members[k].members
                              THEN doc.members[k].members[c]
                              ELSE DefaultTheme.members[c]])])

\* C19: load_settings never raises; it returns the defaults for a missing
\* file, the completed document for a dict whose theme is a dict or
\* missing, and the defaults for every other content.
C19_LoadNeverRaises ==
    loaded # None =>
        /\ loaded[1].raised = ""
        /\ loaded[1].value = IF WellShaped(settings_file)
                             THEN Completed(settings_file.doc)
                             ELSE defaults

\* C20: once the engine is running and unpaused and is only ticked, with a
\* clock that keeps advancing, a tick reports a switch into BREAK and a
\* later one a switch into STUDY, again and again.
C20_ModeAlternatesForever ==
    /\ (running /\ ~paused) ~> (op = "tick" /\ ret /\ mode = BREAK)
    /\ (running /\ ~paused) ~> (op = "tick" /\ ret /\ mode = STUDY)
    /\ [][op' = "tick" /\ ret' => mode' # mode]_vars

C20_BackInStudy == op = "tick" /\ ret /\ mode = STUDY /\ running /\ ~paused

\* C21: a pause_toggle that finds the engine running and unpaused leaves it
\* paused with remaining_seconds = max(0, end_time - now) and, in STUDY
\* mode, with now - last_tick_time added to total_study_seconds; while the
\* engine is paused no start, pause_toggle or tick changes the total, and a
\* tick of the running engine adds only the time since last_tick_time,
\* which the resume has set to its own instant.
C21_PauseCountsOnce ==
    [][/\ (op' = "pause_toggle" /\ running /\ ~paused) =>
              /\ running' /\ paused'
              /\ remaining_seconds' = Max(0, end_time[1] - clock')
              /\ total_study_seconds' =
                     total_study_seconds
                     + (IF mode = STUDY THEN clock' - last_tick_time[1] ELSE 0)
       /\ (paused /\ op' \in {"start", "pause_toggle", "tick"}) =>
              /\ total_study_seconds' = total_study_seconds
              /\ ~paused' => last_tick_time' = Some(clock')
       /\ (op' = "tick" /\ running /\ ~paused) =>
              total_study_seconds' =
                  total_study_seconds
                  + (IF mode = STUDY THEN clock' - last_tick_time[1] ELSE 0)]_vars

\* C21: a study session was paused some time after its last tick and
\* before its deadline, and the time since that tick was added.
C21_PausedWhileStudying ==
    /\ op = "pause_toggle"
    /\ paused
    /\ pre.mode = STUDY /\ pre.running /\ ~pre.paused
    /\ pre.elapsed > 0
    /\ total_study_seconds = pre.total_study_seconds + pre.elapsed
    /\ 0 < remaining_seconds /\ remaining_seconds < duration_seconds

\* the engine has just been resumed by pause_toggle
C22_Resumed ==
    op = "pause_toggle" /\ pre.running /\ pre.paused /\ running /\ ~paused

\* C22: a pause_toggle that finds the engine paused with r seconds remaining
\* leaves it unpaused with end_time = now + r and last_tick_time = now, and
\* changes neither r nor the total; the tick that follows the resume after
\* e seconds adds e to the total in STUDY mode and either leaves r - e
\* seconds remaining or, when e >= r, switches: the time spent paused is
\* in neither.
C22_ResumeSkipsPause ==
    [][/\ (op' = "pause_toggle" /\ running /\ paused) =>
              /\ running' /\ ~paused'
              /\ end_time' = Some(clock' + remaining_seconds)
              /\ last_tick_time' = Some(clock')
              /\ remaining_seconds' = remaining_seconds
              /\ total_study_seconds' = total_study_seconds
       /\ (C22_Resumed /\ op' = "tick") =>
              /\ total_study_seconds' =
                     total_study_seconds
                     + (IF mode = STUDY THEN clock' - clock ELSE 0)
              /\ IF clock' - clock >= remaining_seconds
                 THEN ret'
                 ELSE ~ret' /\ remaining_seconds' =
                                   remaining_seconds - (clock' - clock)]_vars

\* C22: the engine was resumed part-way through a session after a pause
\* longer than the time that was left of it.
C22_ResumedAfterLongPause ==
    /\ C22_Resumed
    /\ 0 < remaining_seconds /\ remaining_seconds < duration_seconds
    /\ pre.elapsed > remaining_seconds
    /\ end_time = Some(clock + remaining_seconds)

\* C23: a tick that returns True leaves the engine in the other mode,
\* running and unpaused, with duration_seconds and remaining_seconds equal
\* to the new mode's configured minutes * 60, end_time = now +
\* remaining_seconds and last_tick_time = now, however late it came.
C23_SwitchBeginsFullSession ==
    (op = "tick" /\ ret) =>
        /\ pre.running /\ ~pre.paused
        /\ mode = (IF pre.mode = STUDY THEN BREAK ELSE STUDY)
        /\ running /\ ~paused
        /\ duration_seconds = Configured(mode)
        /\ remaining_seconds = Configured(mode)
        /\ end_time = Some(clock + remaining_seconds)
        /\ last_tick_time = Some(clock)

\* C23: the switching tick came so late after start() that the whole of the
\* next session would have fitted in between.
C23_SwitchedVeryLate ==
    /\ op = "tick"
    /\ ret
    /\ pre.started_at # None
    /\ mode = BREAK
    /\ clock - pre.started_at[1] >= Configured(STUDY) + Configured(BREAK)

\* C24: between calls duration_seconds is study_minutes * 60 in STUDY mode
\* and break_minutes * 60 in BREAK mode.
C24_DurationFollowsConfig ==
    duration_seconds = Configured(mode)

\* C24: set_config was called during a running break and gave the two
\* modes different lengths; the session has the break's new length.
C24_ReconfiguredBreak ==
    /\ op = "set_config"
    /\ pre.mode = BREAK /\ pre.running
    /\ args # <<>>
    /\ args[1] # args[2]
    /\ duration_seconds = args[2] * SecondsPerMinute

\* C25: between calls, a running and unpaused engine has last_tick_time set
\* and remaining_seconds = end_time - last_tick_time; a stopped engine has
\* last_tick_time unset.
C25_RemainingIsDeadlineMinusLastTick ==
    /\ (running /\ ~paused) =>
           /\ last_tick_time # None
           /\ end_time # None
           /\ remaining_seconds = end_time[1] - last_tick_time[1]
    /\ ~running => last_tick_time = None

\* C25: a tick some time after the one before it found the session still
\* going and moved last_tick_time and remaining_seconds together.
C25_TickedMidSession ==
    /\ op = "tick"
    /\ ~ret
    /\ pre.running /\ ~pre.paused
    /\ pre.elapsed > 0
    /\ last_tick_time = Some(clock)
    /\ remaining_seconds < duration_seconds
    /\ remaining_seconds = end_time[1] - clock

\* C26: the mode changes only in a tick that returns True; whatever is
\* called on a paused engine leaves the mode as it is; and a tick of an
\* engine that is running and unpaused with no time remaining, which is an
\* engine resumed after a pause at or after its deadline, switches.
C26_ModeChangesOnlyInSwitchingTick ==
    [][/\ mode' # mode => (op' = "tick" /\ ret')
       /\ paused => mode' = mode
       /\ (running /\ ~paused /\ remaining_seconds = 0 /\ op' = "tick") =>
              (ret' /\ mode' # mode)]_vars

\* C26: a tick at the very instant of the call before it switched the mode:
\* the engine had been paused at or after its deadline and resumed with no
\* time remaining.
C26_SwitchedRightAfterResume ==
    /\ op = "tick"
    /\ ret
    /\ pre.running /\ ~pre.paused
    /\ pre.elapsed = 0
    /\ mode # pre.mode

\* C27: the tick that switches a STUDY run which start() began at time s
\* and which has only been ticked since leaves total_study_seconds grown,
\* since s, by the time from s to the tick; when the run began with the
\* whole session ahead, that is duration_seconds plus the time by which
\* the tick is late.
C27_CreditNotCapped ==
    [][(started_at # None /\ op' = "tick" /\ ret') =>
           /\ mode = STUDY
           /\ total_study_seconds' = started_total + (clock' - started_at[1])
           /\ end_time[1] = started_at[1] + duration_seconds =>
                  total_study_seconds' =
                      started_total + duration_seconds + (clock' - end_time[1])]_vars

\* C27: a single late tick after start() switched the mode and added more
\* study time than the session is long.
C27_CreditedMoreThanSession ==
    /\ op = "tick"
    /\ ret
    /\ pre.mode = STUDY
    /\ pre.started_at # None
    /\ total_study_seconds - pre.total_study_seconds > Configured(STUDY)

-----------------------------------------------------------------------------
(* Types *)

TypeOK ==
    /\ study_minutes \in Minutes
    /\ break_minutes \in Minutes
    /\ total_study_seconds \in Int
    /\ mode \in {STUDY, BREAK}
    /\ running \in BOOLEAN
    /\ paused \in BOOLEAN
    /\ clock \in 0..MaxClock

====
